---- MODULE Spec2Model ----
\* Model of titan's BlobFileBuilder (src/src/blob_file_builder.cc) writing one
\* blob file through a file sink whose appends and flushes may fail, and of the
\* sequential reader that src/src/blob_file_iterator_test.cc runs over the
\* finished file: the single-file iterator and the merge iterator over several
\* files.
\*
\* Keys are the strings "", "k", "kk", ... written as their length, so that the
\* byte-wise comparator is the order of the naturals and key 0 is the empty
\* string.  Values are the strings "v", "vv", ... written as their length.
\* The build modelled is the one with assertions enabled: a failed assert()
\* aborts the process.
EXTENDS Integers, Sequences, FiniteSets, TLC

\* ------------------------------------------------------------------ bounds
MaxKey == 1
MaxValue == 1
MaxCalls == 3
MaxFailures == 1
MaxDictBytes == 1
TrainUnit == 3
MaxTrainUnits == 2
MaxRecords == 2
MaxFiles == 2

\* --------------------------------------------------------- format constants
kRecordHeaderSize == 9
kBlockTrailerSize == 5
HeaderLen == 12
FooterLen == 32
MetaIndexEmptyLen == 8
MetaIndexEntryLen == 16

Errors == {"IOError", "NoSpace"}
Keys == 0..MaxKey
Values == 1..MaxValue
Records == [key : Keys, value : Values]
NoRecord == [key |-> 0, value |-> 0]
NoDict == [samples |-> 0, lens |-> <<>>, len |-> 0, trained |-> FALSE]
ZeroHandle == [offset |-> 0, size |-> 0]
TrainBytesChoices == {0} \cup {TrainUnit * k : k \in 1..MaxTrainUnits}
\* No dictionary, or a dictionary of at most MaxDictBytes bytes.
Configs == [max_dict_bytes : {0, MaxDictBytes}, zstd_max_train_bytes : TrainBytesChoices]

VARIABLES
  cf_options,   \* the column-family options the builder was constructed with
  builder,      \* the fields of the BlobFileBuilder object
  file,         \* the file sink: every append and flush issued, with its result
  calls,        \* the caller's side: every call made, with what it got back
  aborted,      \* an assert() of the builder has failed
  iters,        \* the BlobFileIterator objects opened over finished files
  merge_iter,   \* the BlobFileMergeIterator over them
  reads         \* the reader's side: the last seek, the Next calls since, what they yielded

vars == <<cf_options, builder, file, calls, aborted, iters, merge_iter, reads>>

\* ------------------------------------------------------------ pure helpers
\* size_t arithmetic.  size_t has 64 bits; the model gives it 30, far above
\* every length that occurs here, so that a wrapped difference can be written.
SizeTModulus == 2 ^ 30
SizeT(x) == x % SizeTModulus

Min(a, b) == IF a <= b THEN a ELSE b

RECURSIVE SumLens(_)
SumLens(s) == IF s = <<>> THEN 0 ELSE Head(s) + SumLens(Tail(s))

\* comparator->Compare(a, b): negative, zero or positive.
Compare(a, b) == a - b

\* BlobRecord::EncodeTo: length-prefixed key, then length-prefixed value.
RecordStrLen(r) == 1 + r.key + 1 + r.value

\* BlobEncoder::GetEncodedSize: record header plus the encoded body.
GetEncodedSize(r) == kRecordHeaderSize + RecordStrLen(r)

\* MetaIndexBuilder::Finish: the serialized meta-index block.
MetaIndexLen(entries) == MetaIndexEmptyLen + MetaIndexEntryLen * Len(entries)

\* std::string::append(str, pos, n): the bytes appended from a string of
\* length L, at most n and at most what str holds from pos on.
AppendedLen(L, pos, n) == Min(n, L - pos)

\* ZSTD_TrainDictionary(samples, sample_lens, max_dict_bytes): a dictionary
\* determined by the corpus, never longer than max_dict_bytes nor the corpus.
\* The corpus `samples` is written as its length.
ZSTD_TrainDictionary(samples, lens, max_dict_bytes) ==
  [samples |-> samples, lens |-> lens, len |-> Min(max_dict_bytes, samples), trained |-> TRUE]

DictionaryEnabled(cf) == cf.max_dict_bytes > 0

\* --------------------------------------------------------------- file sink
\* An entry of the sink's log: what was appended, its length, the status the
\* sink returned, and the content (data) of the bytes.
Entry(kind, len, res, data) == [kind |-> kind, len |-> len, res |-> res, data |-> data]

Failures(log) == Cardinality({i \in DOMAIN log : log[i].res # "OK"})

\* What the sink may return to the next append or flush of world w: it fails
\* at most w.max_failures times.
SinkResults(w) == IF Failures(w.f) < w.max_failures THEN {"OK"} \cup Errors ELSE {"OK"}

IsStored(e) == e.res = "OK" /\ e.kind # "flush"

\* The bytes of the file: the chunks whose append succeeded, in order.
FileChunks(log) == SelectSeq(log, IsStored)

RECURSIVE ChunksSize(_)
ChunksSize(chunks) == IF chunks = <<>> THEN 0 ELSE Head(chunks).len + ChunksSize(Tail(chunks))

\* WritableFileWriter::GetFileSize
GetFileSize(log) == ChunksSize(FileChunks(log))

ok(w) == w.b.status_ = "OK"

\* status_ = file_->Append(bytes)
FileAppend(w, kind, len, data) ==
  { [w EXCEPT !.f = Append(@, Entry(kind, len, res, data)), !.b.status_ = res]
      : res \in SinkResults(w) }

\* status_ = file_->Flush()
FileFlush(w) ==
  { [w EXCEPT !.f = Append(@, Entry("flush", 0, res, [none |-> TRUE])), !.b.status_ = res]
      : res \in SinkResults(w) }

\* ------------------------------------------------------------- the builder
\* A world w is the state an operation runs in: the options (cf), the builder's
\* fields (b), the sink (f) and the operation's locals and out-parameters.
World(cf, b, f) ==
  [cf |-> cf, b |-> b, f |-> f,
   max_failures |-> MaxFailures,  \* the failures the sink may answer with
   handle |-> ZeroHandle,         \* BlobHandle* handle of Add
   block_handle |-> ZeroHandle,   \* BlockHandle* handle of WriteRawBlock
   meta_index |-> <<>>,           \* MetaIndexBuilder of Finish
   footer |-> [meta_index_handle |-> ZeroHandle, uncompression_dict_handle |-> ZeroHandle],
   ret |-> "OK",                  \* the value Finish returns
   asserted |-> FALSE]            \* an assert() failed

NewBuilder(cf) ==
  [builder_state_ |-> IF DictionaryEnabled(cf) THEN "kBuffered" ELSE "kUnbuffered",
   status_ |-> "OK",
   sample_records_ |-> <<>>,
   sample_str_len_ |-> 0,
   num_entries_ |-> 0,
   live_data_size_ |-> 0,
   smallest_key_ |-> 0,
   largest_key_ |-> 0,
   compression_dict_ |-> NoDict,
   encoder_dict |-> NoDict]

\* BlobFileBuilder::BlobFileBuilder
Construct(cf) ==
  FileAppend(World(cf, NewBuilder(cf), <<>>), "header", HeaderLen,
             [has_dictionary |-> DictionaryEnabled(cf)])

WriteEncoderData_BodyOnlyLive(w, rec) ==
  LET h  == [offset |-> GetFileSize(w.f), size |-> GetEncodedSize(rec)]
      d  == [rec |-> rec, dict |-> w.b.encoder_dict, handle |-> h]
      w1 == [w EXCEPT !.handle = h, !.b.live_data_size_ = @ + RecordStrLen(rec)]
  IN UNION { IF w2.b.status_ = "OK"
               THEN { [w3 EXCEPT !.b.num_entries_ = @ + 1]
                        : w3 \in FileAppend(w2, "rec_body", RecordStrLen(rec), d) }
               ELSE {w2}
             : w2 \in FileAppend(w1, "rec_header", kRecordHeaderSize, d) }

\* BlobFileBuilder::WriteEncoderData, with the encoder holding record rec.
WriteEncoderData(w, rec) ==
  LET h  == [offset |-> GetFileSize(w.f), size |-> GetEncodedSize(rec)]
      d  == [rec |-> rec, dict |-> w.b.encoder_dict, handle |-> h]
      w1 == [w EXCEPT !.handle = h, !.b.live_data_size_ = @ + h.size]
  IN UNION { IF ok(w2)
               THEN { [w3 EXCEPT !.b.num_entries_ = @ + 1]
                        : w3 \in FileAppend(w2, "rec_body", RecordStrLen(rec), d) }
               ELSE {w2}
             : w2 \in FileAppend(w1, "rec_header", kRecordHeaderSize, d) }

RECURSIVE ReplaySamples(_, _)
ReplaySamples(W, recs) ==
  IF recs = <<>> THEN W
  ELSE ReplaySamples(UNION { WriteEncoderData(w, Head(recs)) : w \in W }, Tail(recs))

\* BlobFileBuilder::FlushSampleRecords: the handle written is a local.
FlushSampleRecords(w) ==
  { [w2 EXCEPT !.b.sample_records_ = <<>>, !.b.sample_str_len_ = 0, !.handle = w.handle]
      : w2 \in ReplaySamples({w}, w.b.sample_records_) }

CopyLen_Saturating(B, L) == IF B > L THEN Min(B - L, L) ELSE 0

\* copy_len of EnterUnbuffered: min(B - L, L) in size_t arithmetic when B > 0.
\* B - L wraps to 2^64 - (L - B) when L > B, which is larger than any L here.
CopyLen(B, L) ==
  IF B > 0 THEN (IF B >= L THEN Min(B - L, L) ELSE L) ELSE L

EnterUnbuffered_StateKept(w) ==
  LET recs == w.b.sample_records_
      sample_lens == [i \in DOMAIN recs |->
                        CopyLen(w.cf.zstd_max_train_bytes, RecordStrLen(recs[i]))]
      samples == SumLens([i \in DOMAIN recs |->
                            AppendedLen(RecordStrLen(recs[i]), 0, sample_lens[i])])
      dict == ZSTD_TrainDictionary(samples, sample_lens, w.cf.max_dict_bytes)
  IN FlushSampleRecords([w EXCEPT !.b.compression_dict_ = dict,
                                  !.b.encoder_dict = dict])

\* BlobFileBuilder::EnterUnbuffered
EnterUnbuffered(w) ==
  LET recs == w.b.sample_records_
      sample_lens == [i \in DOMAIN recs |->
                        CopyLen(w.cf.zstd_max_train_bytes, RecordStrLen(recs[i]))]
      samples == SumLens([i \in DOMAIN recs |->
                            AppendedLen(RecordStrLen(recs[i]), 0, sample_lens[i])])
      dict == ZSTD_TrainDictionary(samples, sample_lens, w.cf.max_dict_bytes)
  IN FlushSampleRecords([w EXCEPT !.b.compression_dict_ = dict,
                                  !.b.encoder_dict = dict,
                                  !.b.builder_state_ = "kUnbuffered"])

\* The key range checks at the end of Add.
KeyRangeCheck(w, record) ==
  LET s  == IF w.b.smallest_key_ = 0 THEN record.key ELSE w.b.smallest_key_
      w1 == [w EXCEPT !.b.smallest_key_ = s]
  IN IF Compare(record.key, s) >= 0 /\ Compare(record.key, w.b.largest_key_) >= 0
       THEN [w1 EXCEPT !.b.largest_key_ = record.key]
       ELSE [w1 EXCEPT !.asserted = TRUE]

AddBody_CountsBuffered(w, record) ==
  IF w.b.builder_state_ = "kBuffered" THEN
    LET w1 == [w EXCEPT !.b.sample_records_ = Append(@, record),
                        !.b.sample_str_len_ = @ + RecordStrLen(record),
                        !.b.num_entries_ = @ + 1]
    IN IF w.cf.zstd_max_train_bytes > 0
          /\ w1.b.sample_str_len_ >= w.cf.zstd_max_train_bytes
         THEN EnterUnbuffered(w1)
         ELSE {w1}
  ELSE { KeyRangeCheck(w2, record) : w2 \in WriteEncoderData(w, record) }

AddBody_StrictThreshold(w, record) ==
  IF w.b.builder_state_ = "kBuffered" THEN
    LET w1 == [w EXCEPT !.b.sample_records_ = Append(@, record),
                        !.b.sample_str_len_ = @ + RecordStrLen(record)]
    IN IF w.cf.zstd_max_train_bytes > 0
          /\ w1.b.sample_str_len_ > w.cf.zstd_max_train_bytes
         THEN EnterUnbuffered(w1)
         ELSE {w1}
  ELSE { KeyRangeCheck(w2, record) : w2 \in WriteEncoderData(w, record) }

\* BlobFileBuilder::Add past the status check
AddBody(w, record) ==
  IF w.b.builder_state_ = "kBuffered" THEN
    LET w1 == [w EXCEPT !.b.sample_records_ = Append(@, record),
                        !.b.sample_str_len_ = @ + RecordStrLen(record)]
    IN IF w.cf.zstd_max_train_bytes > 0
          /\ w1.b.sample_str_len_ >= w.cf.zstd_max_train_bytes
         THEN EnterUnbuffered(w1)
         ELSE {w1}
  ELSE { KeyRangeCheck(w2, record) : w2 \in WriteEncoderData(w, record) }

AddOutcomes_NoStatusCheck(w, record) == AddBody(w, record)

\* BlobFileBuilder::Add
AddOutcomes(w, record) == IF ~ok(w) THEN {w} ELSE AddBody(w, record)

\* BlobFileBuilder::WriteRawBlock
WriteRawBlock(w, kind, len, data) ==
  LET h  == [offset |-> GetFileSize(w.f), size |-> len]
      w1 == [w EXCEPT !.block_handle = h]
  IN UNION { IF ok(w2)
               THEN FileAppend(w2, "trailer", kBlockTrailerSize, [of |-> kind])
               ELSE {w2}
             : w2 \in FileAppend(w1, kind, len, data) }

\* BlobFileBuilder::WriteCompressionDictBlock
WriteCompressionDictBlock(w) ==
  { IF ok(w2) THEN [w2 EXCEPT !.meta_index = Append(@, w2.block_handle)] ELSE w2
      : w2 \in WriteRawBlock(w, "dict_block", w.b.compression_dict_.len,
                             [dict |-> w.b.compression_dict_]) }

MakeFooter_HandlesDropped(meta_index_handle, uncompression_dict_handle) ==
  [meta_index_handle |-> ZeroHandle, uncompression_dict_handle |-> ZeroHandle]

\* The footer Finish encodes from the two block handles.
MakeFooter(meta_index_handle, uncompression_dict_handle) ==
  [meta_index_handle |-> meta_index_handle,
   uncompression_dict_handle |-> uncompression_dict_handle]

\* The dictionary branch of Finish.
WriteDictionaryBlocks(w) ==
  UNION { { [w3 EXCEPT !.footer = MakeFooter(w3.block_handle, w2.block_handle)]
              : w3 \in WriteRawBlock(w2, "meta_block", MetaIndexLen(w2.meta_index),
                                     [entries |-> w2.meta_index]) }
          : w2 \in WriteCompressionDictBlock(w) }

\* BlobFileBuilder::Finish past the status check
FinishBody(w) ==
  LET W1 == IF w.b.builder_state_ = "kBuffered" THEN EnterUnbuffered(w) ELSE {w}
      W2 == IF DictionaryEnabled(w.cf)
              THEN UNION { WriteDictionaryBlocks(w1) : w1 \in W1 }
              ELSE W1
      W3 == UNION { FileAppend(w2, "footer", FooterLen, w2.footer) : w2 \in W2 }
      W4 == UNION { IF ok(w3) THEN FileFlush(w3) ELSE {w3} : w3 \in W3 }
  IN { [w4 EXCEPT !.ret = w4.b.status_] : w4 \in W4 }

\* BlobFileBuilder::Finish
FinishOutcomes(w) ==
  IF ~ok(w) THEN { [w EXCEPT !.ret = w.b.status_] } ELSE FinishBody(w)

\* BlobFileBuilder::NumEntries
NumEntries == builder.num_entries_

\* BlobFileBuilder::status
status == builder.status_

\* ------------------------------------------------------------- the readers
\* No merge iterator, and no call made on a reader.
NoMergeIterator == [current_ |-> 0, status_ |-> "OK"]
NoReads == [op |-> "none", target |-> 0, nexts |-> 0, yielded |-> <<>>]

\* ------------------------------------------------------------ the caller
Call(op, rec, w0, w) ==
  [op |-> op, rec |-> rec, st_in |-> w0.b.status_, state_in |-> w0.b.builder_state_,
   log_in |-> Len(w0.f), handle |-> w.handle, ret |-> w.ret, asserted |-> w.asserted]

Init ==
  \E cf \in Configs :
    \E w \in Construct(cf) :
      /\ cf_options = cf
      /\ builder = w.b
      /\ file = w.f
      /\ calls = <<>>
      /\ aborted = FALSE
      /\ iters = <<>>
      /\ merge_iter = NoMergeIterator
      /\ reads = NoReads

Add(record) ==
  /\ ~aborted
  /\ Len(calls) < MaxCalls
  /\ LET w0 == World(cf_options, builder, file)
     IN \E w \in AddOutcomes(w0, record) :
          /\ builder' = w.b
          /\ file' = w.f
          /\ calls' = Append(calls, Call("Add", record, w0, w))
          /\ aborted' = w.asserted
  /\ UNCHANGED <<cf_options, iters, merge_iter, reads>>

Finish ==
  /\ ~aborted
  /\ Len(calls) < MaxCalls
  /\ LET w0 == World(cf_options, builder, file)
     IN \E w \in FinishOutcomes(w0) :
          /\ builder' = w.b
          /\ file' = w.f
          /\ calls' = Append(calls, Call("Finish", NoRecord, w0, w))
  /\ UNCHANGED <<cf_options, aborted, iters, merge_iter, reads>>

Next ==
  \/ \E record \in Records : Add(record)
  \/ Finish

Spec == Init /\ [][Next]_vars

\* ------------------------------------------------- reading the file back
\* The single-file iterator over the bytes of the file (the chunks whose
\* append succeeded).  It reads the header at offset 0 and the footer in the
\* last FooterLen bytes; with the header's dictionary flag set it loads the
\* dictionary at the footer's dictionary handle, where the records also end.
ChunkOffset(chunks, i) == ChunksSize(SubSeq(chunks, 1, i - 1))

\* The chunk of kind `kind` that starts at offset off, or 0.
ChunkAt(chunks, off, kind) ==
  LET at == {i \in DOMAIN chunks : ChunkOffset(chunks, i) = off /\ chunks[i].kind = kind}
  IN IF at = {} THEN 0 ELSE CHOOSE i \in at : \A j \in at : i <= j

\* Next() from `cursor` until the end of the records: the records decoded so
\* far (key, value, handle) and the status the scan ends with.
RECURSIVE ReadRecords(_, _, _, _, _)
ReadRecords(chunks, cursor, end, dict, acc) ==
  IF cursor = end THEN [items |-> acc, status |-> "OK"]
  ELSE IF cursor > end THEN [items |-> acc, status |-> "Corruption"]
  ELSE
    LET i == ChunkAt(chunks, cursor, "rec_header")
    IN IF i = 0 \/ i + 1 > Len(chunks) THEN [items |-> acc, status |-> "Corruption"]
       ELSE LET hd == chunks[i]
                bd == chunks[i + 1]
            IN IF bd.kind # "rec_body" \/ bd.data.rec # hd.data.rec \/ bd.data.dict # dict
                 THEN [items |-> acc, status |-> "Corruption"]
                 ELSE ReadRecords(chunks, cursor + hd.len + bd.len, end, dict,
                        Append(acc, [key |-> bd.data.rec.key, value |-> bd.data.rec.value,
                                     handle |-> [offset |-> cursor, size |-> hd.len + bd.len]]))

\* SeekToFirst() and Next() until the iterator is no longer Valid.
IterateFile(log) ==
  LET chunks == FileChunks(log)
      size   == ChunksSize(chunks)
      hi     == ChunkAt(chunks, 0, "header")
      fi     == ChunkAt(chunks, size - FooterLen, "footer")
      bad    == [items |-> <<>>, status |-> "Corruption"]
  IN IF hi = 0 \/ fi = 0 THEN bad
     ELSE IF ~chunks[hi].data.has_dictionary
       THEN ReadRecords(chunks, HeaderLen, size - FooterLen, NoDict, <<>>)
     ELSE LET dh == chunks[fi].data.uncompression_dict_handle
              di == ChunkAt(chunks, dh.offset, "dict_block")
          IN IF di = 0 \/ chunks[di].len # dh.size THEN bad
             ELSE ReadRecords(chunks, HeaderLen, dh.offset, chunks[di].data.dict, <<>>)

\* ------------------------------------------------------- BlobFileIterator
\* The iterator object over one finished file (its bytes are the chunks of the
\* log whose append succeeded), with the file number fixed at construction.
NewBlobFileIterator(file_number, log) ==
  [file_ |-> log,
   file_number_ |-> file_number,
   init_ |-> FALSE,
   valid_ |-> FALSE,
   status_ |-> "OK",
   iterate_offset_ |-> 0,            \* the read cursor
   end_of_blob_record_ |-> 0,        \* where the records end
   uncompression_dict_ |-> NoDict,
   cur_blob_record_ |-> NoRecord,    \* the record decoded last
   cur_record_offset_ |-> 0,
   cur_record_size_ |-> 0]

\* The first use reads the header and the footer, as IterateFile does.
BlobFileIterator_Init(it) ==
  LET chunks == FileChunks(it.file_)
      size   == ChunksSize(chunks)
      hi     == ChunkAt(chunks, 0, "header")
      fi     == ChunkAt(chunks, size - FooterLen, "footer")
      bad    == [it EXCEPT !.status_ = "Corruption", !.valid_ = FALSE]
  IN IF it.init_ THEN it
     ELSE IF hi = 0 \/ fi = 0 THEN bad
     ELSE IF ~chunks[hi].data.has_dictionary
       THEN [it EXCEPT !.init_ = TRUE, !.end_of_blob_record_ = size - FooterLen]
     ELSE LET dh == chunks[fi].data.uncompression_dict_handle
              di == ChunkAt(chunks, dh.offset, "dict_block")
          IN IF di = 0 \/ chunks[di].len # dh.size THEN bad
             ELSE [it EXCEPT !.init_ = TRUE,
                             !.end_of_blob_record_ = dh.offset,
                             !.uncompression_dict_ = chunks[di].data.dict]

\* Decode the record at the read cursor and move the cursor past it: Valid at
\* that record, or not Valid with a clean status exactly at the end of the
\* records, or not Valid with an error.
GetBlobRecord(it) ==
  LET chunks == FileChunks(it.file_)
      cursor == it.iterate_offset_
      i      == ChunkAt(chunks, cursor, "rec_header")
      bad    == [it EXCEPT !.status_ = "Corruption", !.valid_ = FALSE]
  IN IF it.status_ # "OK" THEN [it EXCEPT !.valid_ = FALSE]
     ELSE IF cursor = it.end_of_blob_record_ THEN [it EXCEPT !.valid_ = FALSE]
     ELSE IF cursor > it.end_of_blob_record_ \/ i = 0 \/ i + 1 > Len(chunks) THEN bad
     ELSE LET hd == chunks[i]
              bd == chunks[i + 1]
          IN IF bd.kind # "rec_body" \/ bd.data.rec # hd.data.rec
                \/ bd.data.dict # it.uncompression_dict_
               THEN bad
               ELSE [it EXCEPT !.valid_ = TRUE,
                               !.cur_blob_record_ = bd.data.rec,
                               !.cur_record_offset_ = cursor,
                               !.cur_record_size_ = hd.len + bd.len,
                               !.iterate_offset_ = cursor + hd.len + bd.len]

BlobFileIterator_SeekToFirst_BeforeFirst(it) ==
  LET i1 == BlobFileIterator_Init(it)
  IN IF ~i1.init_ THEN i1
     ELSE [i1 EXCEPT !.status_ = "OK", !.valid_ = FALSE, !.iterate_offset_ = HeaderLen]

\* BlobFileIterator::SeekToFirst: the test reads key(), value() and
\* GetBlobIndex() of record 0 right after it, before any Next().
BlobFileIterator_SeekToFirst(it) ==
  LET i1 == BlobFileIterator_Init(it)
  IN IF ~i1.init_ THEN i1
     ELSE GetBlobRecord([i1 EXCEPT !.status_ = "OK", !.iterate_offset_ = HeaderLen])

\* BlobFileIterator::Next
BlobFileIterator_Next(it) == GetBlobRecord(it)

\* The scan of IterateForPrev: record headers are read from `cursor` on, with
\* `last` the start of the record parsed last; it stops before the record that
\* starts beyond the target, or at the end of the records, with the cursor put
\* back at `last`.
RecordLengthAt(log, cursor) ==
  LET chunks == FileChunks(log)
      i      == ChunkAt(chunks, cursor, "rec_header")
  IN IF i = 0 THEN 0 ELSE chunks[i].len + RecordStrLen(chunks[i].data.rec)

RECURSIVE ScanForPrev(_, _, _, _)
ScanForPrev(it, cursor, last, target) ==
  IF cursor > target \/ cursor >= it.end_of_blob_record_
    THEN [it EXCEPT !.iterate_offset_ = last]
  ELSE LET total_length == RecordLengthAt(it.file_, cursor)
       IN IF total_length = 0 THEN [it EXCEPT !.status_ = "Corruption"]
          ELSE ScanForPrev(it, cursor + total_length, cursor, target)

BlobFileIterator_IterateForPrev_StopsEarly(it, offset) ==
  LET i1 == BlobFileIterator_Init(it)
  IN IF ~i1.init_ THEN i1
     ELSE ScanForPrev([i1 EXCEPT !.status_ = "OK", !.valid_ = FALSE],
                      HeaderLen, HeaderLen, offset - 1)

\* BlobFileIterator::IterateForPrev
BlobFileIterator_IterateForPrev(it, offset) ==
  LET i1 == BlobFileIterator_Init(it)
  IN IF ~i1.init_ THEN i1
     ELSE ScanForPrev([i1 EXCEPT !.status_ = "OK", !.valid_ = FALSE],
                      HeaderLen, HeaderLen, offset)

\* BlobFileIterator::GetBlobIndex
BlobFileIterator_GetBlobIndex(it) ==
  [file_number |-> it.file_number_,
   blob_handle |-> [offset |-> it.cur_record_offset_, size |-> it.cur_record_size_]]

\* What a caller reads at a Valid position: key(), value(), GetBlobIndex().
Current(it) ==
  [key |-> it.cur_blob_record_.key, value |-> it.cur_blob_record_.value,
   blob_index |-> BlobFileIterator_GetBlobIndex(it)]

\* -------------------------------------------------- BlobFileMergeIterator
ChildValid(its, i) == its[i].status_ = "OK" /\ its[i].valid_

\* The status of the first child that holds an error, OK when none does.
ChildStatus(its) ==
  LET failed == {i \in DOMAIN its : its[i].status_ # "OK"}
  IN IF failed = {} THEN "OK" ELSE its[CHOOSE i \in failed : \A j \in failed : i <= j].status_

\* The top of the min-heap: the Valid child with the smallest current key, the
\* one of lowest index among equal keys; 0 when no child is Valid.
SelectSmallest(its) ==
  LET C == {i \in DOMAIN its : ChildValid(its, i)}
      k(i) == its[i].cur_blob_record_.key
  IN IF C = {} THEN 0
     ELSE CHOOSE i \in C :
            \A j \in C : Compare(k(i), k(j)) < 0 \/ (Compare(k(i), k(j)) = 0 /\ i <= j)

\* The merge iterator once its children `its` have moved.
Reselect(its) ==
  [iters |-> its,
   merge |-> [current_ |-> IF ChildStatus(its) = "OK" THEN SelectSmallest(its) ELSE 0,
              status_ |-> ChildStatus(its)]]

\* BlobFileMergeIterator::SeekToFirst
BlobFileMergeIterator_SeekToFirst(its) ==
  Reselect([i \in DOMAIN its |-> BlobFileIterator_SeekToFirst(its[i])])

\* BlobFileMergeIterator::Next
BlobFileMergeIterator_Next(m, its) ==
  Reselect([its EXCEPT ![m.current_] = BlobFileIterator_Next(@)])

\* BlobFileMergeIterator::Valid
BlobFileMergeIterator_Valid(m) == m.current_ # 0 /\ m.status_ = "OK"

\* ------------------------------------------------- what the caller has seen
IsAcceptedAdd(c) == c.op = "Add" /\ c.st_in = "OK" /\ ~c.asserted
IsFinish(c) == c.op = "Finish"

\* The Add calls the builder accepted, in call order.
AcceptedAdds == SelectSeq(calls, IsAcceptedAdd)
AddedRecords == [i \in DOMAIN AcceptedAdds |-> AcceptedAdds[i].rec]
AddedPairs == [i \in DOMAIN AcceptedAdds |->
                 [key |-> AcceptedAdds[i].rec.key, value |-> AcceptedAdds[i].rec.value]]

LastCall == calls[Len(calls)]

\* The last call was a Finish and it returned OK.
FinishedOK == calls # <<>> /\ IsFinish(LastCall) /\ LastCall.ret = "OK"

\* Records were added and then Finish was called, once, and returned OK.
AddedThenFinishedOK == FinishedOK /\ Len(SelectSeq(calls, IsFinish)) = 1

NoFinishYet == SelectSeq(calls, IsFinish) = <<>>

KeysNonDecreasing ==
  \A i \in DOMAIN AddedRecords :
    \A j \in DOMAIN AddedRecords : i < j => AddedRecords[i].key <= AddedRecords[j].key

IsWrittenBody(e) == e.kind = "rec_body" /\ e.res = "OK"

\* The records whose header and body were both appended, in file order.
WrittenBodies == SelectSeq(file, IsWrittenBody)
WrittenRecords == [i \in DOMAIN WrittenBodies |-> WrittenBodies[i].data.rec]
WrittenHandles == [i \in DOMAIN WrittenBodies |-> WrittenBodies[i].data.handle]

IsFailed(e) == e.res # "OK"

\* The first error any append or flush returned, OK when none failed.
FirstError ==
  LET failed == SelectSeq(file, IsFailed)
  IN IF failed = <<>> THEN "OK" ELSE failed[1].res

HandlesIncreasingDisjoint(hs) ==
  \A i \in DOMAIN hs :
    \A j \in DOMAIN hs :
      i < j => hs[i].offset < hs[j].offset /\ hs[i].offset + hs[i].size <= hs[j].offset

\* The Add calls made in Buffered state on a non-failed builder: each one put
\* its record into the sample buffer.
IsBufferedAdd(c) == c.op = "Add" /\ c.st_in = "OK" /\ c.state_in = "kBuffered"
SampledRecords ==
  LET s == SelectSeq(calls, IsBufferedAdd) IN [i \in DOMAIN s |-> s[i].rec]

\* The chunks that end a finished file, after the records.
ExpectedTail(dictionary) ==
  IF dictionary THEN <<"dict_block", "trailer", "meta_block", "trailer", "footer">>
                ELSE <<"footer">>

\* ------------------------------------------ reading finished files: the runs
\* The records a builder wrote to the file `log`, in file order, each with the
\* handle the builder computed for it.
FileRecords(log) ==
  LET bodies == SelectSeq(log, IsWrittenBody)
  IN [i \in DOMAIN bodies |->
        [key |-> bodies[i].data.rec.key, value |-> bodies[i].data.rec.value,
         handle |-> bodies[i].data.handle]]

\* What an iterator over file number n reads at record r of that file.
Yield(r, n) ==
  [key |-> r.key, value |-> r.value,
   blob_index |-> [file_number |-> n, blob_handle |-> r.handle]]

\* The record sequences a file is built from: at most MaxRecords records with
\* non-decreasing keys.
SortedRecordSeqs ==
  { recs \in UNION { [1..n -> Records] : n \in 0..MaxRecords } :
      \A i \in DOMAIN recs : \A j \in DOMAIN recs : i < j => recs[i].key <= recs[j].key }

\* The outcome of a call in which every append and flush succeeded.
Succeeded(W) == CHOOSE w \in W : Failures(w.f) = 0 /\ ~w.asserted

\* The world of a call made on a sink that does not fail.
ReliableWorld(cf, b, f) == [World(cf, b, f) EXCEPT !.max_failures = 0]

\* NewBuilder, the AddKeyValue loop and FinishBuilder of the test, on a sink
\* that never fails: the builder, the file and the calls made.
NewRun(cf) ==
  LET w == Succeeded(Construct(cf)) IN [cf |-> cf, b |-> w.b, f |-> w.f, calls |-> <<>>]

RECURSIVE AddKeyValues(_, _)
AddKeyValues(run, recs) ==
  IF recs = <<>> THEN run
  ELSE LET w0 == ReliableWorld(run.cf, run.b, run.f)
           w  == Succeeded(AddOutcomes(w0, Head(recs)))
       IN AddKeyValues([run EXCEPT !.b = w.b, !.f = w.f,
                                   !.calls = Append(@, Call("Add", Head(recs), w0, w))],
                       Tail(recs))

FinishBuilder(run) ==
  LET w0 == ReliableWorld(run.cf, run.b, run.f)
      w  == Succeeded(FinishOutcomes(w0))
  IN [run EXCEPT !.b = w.b, !.f = w.f,
                 !.calls = Append(@, Call("Finish", NoRecord, w0, w))]

BuildFile(cf, recs) == FinishBuilder(AddKeyValues(NewRun(cf), recs))

\* The position after a call on a reader, with what the reader has yielded
\* since the last seek.
Read(op, target, nexts, before, valid, cur) ==
  [op |-> op, target |-> target, nexts |-> nexts,
   yielded |-> IF valid THEN Append(before, cur) ELSE before]

\* ---------------------------------------------- one iterator over one file
IterInit ==
  \E cf \in Configs :
    \E recs \in SortedRecordSeqs :
      \E run \in {BuildFile(cf, recs)} :
         /\ cf_options = cf
         /\ builder = run.b
         /\ file = run.f
         /\ calls = run.calls
         /\ aborted = FALSE
         /\ iters = <<NewBlobFileIterator(1, run.f)>>
         /\ merge_iter = NoMergeIterator
         /\ reads = NoReads

SeekToFirst ==
  /\ \E it \in {BlobFileIterator_SeekToFirst(iters[1])} :
        /\ iters' = <<it>>
        /\ reads' = Read("SeekToFirst", 0, 0, <<>>, it.valid_, Current(it))
  /\ UNCHANGED <<cf_options, builder, file, calls, aborted, merge_iter>>

IterateForPrev(offset) ==
  /\ \E it \in {BlobFileIterator_IterateForPrev(iters[1], offset)} :
        /\ iters' = <<it>>
        /\ reads' = Read("IterateForPrev", offset, 0, <<>>, it.valid_, Current(it))
  /\ UNCHANGED <<cf_options, builder, file, calls, aborted, merge_iter>>

\* Next() is called at a Valid position, and right after IterateForPrev.
IterNext ==
  /\ iters[1].init_
  /\ iters[1].valid_ \/ (reads.op = "IterateForPrev" /\ reads.nexts = 0)
  /\ \E it \in {BlobFileIterator_Next(iters[1])} :
        /\ iters' = <<it>>
        /\ reads' = Read(reads.op, reads.target, reads.nexts + 1, reads.yielded,
                         it.valid_, Current(it))
  /\ UNCHANGED <<cf_options, builder, file, calls, aborted, merge_iter>>

\* The offsets a caller hands to IterateForPrev: for each record its start,
\* the byte before it (the last byte of the record before) and the byte after
\* it (inside the record); and the first and the last offset of the file.
TargetOffsets(log) ==
  {0, GetFileSize(log)} \cup
  UNION { LET h == FileRecords(log)[i].handle
          IN {h.offset - 1, h.offset, h.offset + 1}
          : i \in DOMAIN FileRecords(log) }

IterStep ==
  \/ SeekToFirst
  \/ \E offset \in TargetOffsets(file) : IterateForPrev(offset)
  \/ IterNext

IterSpec == IterInit /\ [][IterStep]_vars

\* ------------------------------------------- a merge iterator over M files
\* A cut of the records `all` into M parts: part i is all[cut[i-1]+1..cut[i]].
Cuts(all, M) ==
  { cut \in [0..M -> 0..Len(all)] :
      /\ cut[0] = 0 /\ cut[M] = Len(all)
      /\ \A i \in 1..M : cut[i - 1] <= cut[i]
      \* key ranges of different files do not overlap
      /\ \A i \in 1..(M - 1) :
           (0 < cut[i] /\ cut[i] < Len(all)) => all[cut[i]].key < all[cut[i] + 1].key }

\* The calls made on the builders of the files, in file order: the test keeps
\* what every Add returned in one list (key_indices).
RECURSIVE AllCalls(_)
AllCalls(runs) ==
  IF runs = <<>> THEN <<>>
  ELSE AllCalls(SubSeq(runs, 1, Len(runs) - 1)) \o runs[Len(runs)].calls

ChildOrders(M) ==
  { order \in [1..M -> 1..M] : \A i \in 1..M : \E k \in 1..M : order[k] = i }

MergeInit ==
  \E cf \in Configs :
    \E all \in SortedRecordSeqs :
      \E M \in 1..MaxFiles :
        \E cut \in Cuts(all, M) :
          \E order \in ChildOrders(M) :
            \E run \in {[n \in 1..M |-> BuildFile(cf, SubSeq(all, cut[n - 1] + 1, cut[n]))]} :
               /\ cf_options = cf
               /\ builder = run[M].b
               /\ file = run[M].f
               /\ calls = AllCalls(run)
               /\ aborted = FALSE
               /\ iters = [k \in 1..M |-> NewBlobFileIterator(order[k], run[order[k]].f)]
               /\ merge_iter = NoMergeIterator
               /\ reads = NoReads

MergeSeekToFirst ==
  /\ \E r \in {BlobFileMergeIterator_SeekToFirst(iters)} :
     LET at == BlobFileMergeIterator_Valid(r.merge)
     IN /\ iters' = r.iters
        /\ merge_iter' = r.merge
        /\ reads' = Read("MergeSeekToFirst", 0, 0, <<>>, at,
                         IF at THEN Current(r.iters[r.merge.current_]) ELSE NoReads)
  /\ UNCHANGED <<cf_options, builder, file, calls, aborted>>

MergeNext ==
  /\ BlobFileMergeIterator_Valid(merge_iter)
  /\ \E r \in {BlobFileMergeIterator_Next(merge_iter, iters)} :
     LET at == BlobFileMergeIterator_Valid(r.merge)
     IN /\ iters' = r.iters
        /\ merge_iter' = r.merge
        /\ reads' = Read(reads.op, reads.target, reads.nexts + 1, reads.yielded, at,
                         IF at THEN Current(r.iters[r.merge.current_]) ELSE NoReads)
  /\ UNCHANGED <<cf_options, builder, file, calls, aborted>>

MergeStep ==
  \/ MergeSeekToFirst
  \/ MergeNext

MergeSpec == MergeInit /\ [][MergeStep]_vars

\* ------------------------------------------------------------------ claims

\* C1: round trip. When records with non-decreasing keys were added and Finish,
\* called once after them, returned OK, iterating the file from SeekToFirst
\* ends cleanly and yields exactly the added (key, value) pairs in Add order,
\* with handles whose offsets strictly increase and whose ranges are disjoint.
C1_RoundTrip ==
  (AddedThenFinishedOK /\ KeysNonDecreasing) =>
    LET it == IterateFile(file)
    IN /\ it.status = "OK"
       /\ [i \in DOMAIN it.items |-> [key |-> it.items[i].key, value |-> it.items[i].value]]
            = AddedPairs
       /\ HandlesIncreasingDisjoint([i \in DOMAIN it.items |-> it.items[i].handle])

\* C2: after a Finish that returned OK, the records written to the file are the
\* records of the accepted Add calls, each once and in Add order, and the
\* sample buffer is empty.
C2_EveryRecordWrittenOnce ==
  FinishedOK => /\ WrittenRecords = AddedRecords
                /\ builder.sample_records_ = <<>>

\* C3: an Add whose key is less than the key of the previous Add is rejected by
\* the ordering assertion, in Buffered and in Unbuffered state alike.
C3_KeyOrderEnforced ==
  \A i \in DOMAIN calls :
    \A j \in DOMAIN calls :
      (/\ j + 1 = i
       /\ calls[i].op = "Add" /\ calls[i].st_in = "OK"
       /\ calls[j].op = "Add" /\ calls[j].st_in = "OK"
       /\ calls[i].rec.key < calls[j].rec.key)
      => calls[i].asserted

\* C4: sticky status. Once an append or flush has failed, status() is the first
\* error returned (so it never goes back to OK, and a later result never
\* replaces it), and a Finish that has just returned has returned that error.
C4_StickyFirstError ==
  FirstError # "OK" =>
    /\ status = FirstError
    /\ (calls # <<>> /\ IsFinish(LastCall)) => LastCall.ret = FirstError

\* C5: write short-circuiting. After an append or flush has failed the builder
\* issues no further append or flush: a failed operation is the last one the
\* sink ever sees.
C5_NoWriteAfterFailure ==
  \A i \in DOMAIN file : file[i].res # "OK" => i = Len(file)

\* C6: a call on a failed builder is a no-op. With status non-OK on entry, Add
\* and Finish change neither the builder's fields (state, sample buffer,
\* NumEntries, live-data size, key range) nor the file, and Finish returns the
\* error the builder holds.
C6_FailedBuilderNoOp ==
  [][ (status # "OK" /\ Len(calls') > Len(calls)) =>
        /\ builder' = builder
        /\ file' = file
        /\ IsFinish(calls'[Len(calls')]) => calls'[Len(calls')].ret = status ]_vars

\* C6 witness: both an Add and a Finish have been made on a failed builder.
C6_Witness ==
  /\ \E i \in DOMAIN calls : calls[i].op = "Add" /\ calls[i].st_in # "OK"
  /\ \E i \in DOMAIN calls : IsFinish(calls[i]) /\ calls[i].st_in # "OK"

\* C7: after records were added and Finish returned OK, the caller holds, for
\* each added record, the handle at which the iterator finds that record.
\* Stated for the runs in which no append or flush failed.
C7_CallerHoldsFinalHandles ==
  (AddedThenFinishedOK /\ Failures(file) = 0) =>
    LET it == IterateFile(file)
    IN /\ Len(it.items) = Len(AcceptedAdds)
       /\ \A i \in DOMAIN AcceptedAdds : AcceptedAdds[i].handle = it.items[i].handle

\* C8: NumEntries() is the number of records whose header and body were both
\* appended to the file.
C8_NumEntriesCountsWritten == NumEntries = Len(WrittenRecords)

\* C9: the header's dictionary flag is set exactly when a dictionary is
\* configured, and after a Finish that returned OK the footer ending the file
\* carries two non-zero handles when the flag is set, two zero handles when not.
C9_DictionaryActivation ==
  /\ file[1].kind = "header"
  /\ file[1].data.has_dictionary = DictionaryEnabled(cf_options)
  /\ FinishedOK =>
       LET chunks == FileChunks(file)
           ft == chunks[Len(chunks)]
       IN /\ ft.kind = "footer"
          /\ IF file[1].data.has_dictionary
               THEN /\ ft.data.meta_index_handle # ZeroHandle
                    /\ ft.data.uncompression_dict_handle # ZeroHandle
               ELSE /\ ft.data.meta_index_handle = ZeroHandle
                    /\ ft.data.uncompression_dict_handle = ZeroHandle

\* C9 witness: a dictionary is configured, a record was added and Finish
\* returned OK.
C9_Witness == FinishedOK /\ DictionaryEnabled(cf_options) /\ AddedRecords # <<>>

\* C10: an Add in Unbuffered state returns the handle (file size before the
\* append, encoded size); and, until Finish is called, the handles of the
\* records written are contiguous: the first starts at the header length and
\* each later one where the previous one ends.
C10_HandlesContiguous ==
  /\ \A i \in DOMAIN calls :
       (IsAcceptedAdd(calls[i]) /\ calls[i].state_in = "kUnbuffered") =>
         /\ calls[i].handle.offset = GetFileSize(SubSeq(file, 1, calls[i].log_in))
         /\ calls[i].handle.size = GetEncodedSize(calls[i].rec)
  /\ NoFinishYet =>
       \A i \in DOMAIN WrittenHandles :
         WrittenHandles[i].offset =
           IF i = 1 THEN HeaderLen
           ELSE WrittenHandles[i - 1].offset + WrittenHandles[i - 1].size

\* C11: file layout. Whenever the last call was a Finish that returned OK, the
\* file is one header, then the records (each a record header and its body),
\* then, only with a dictionary configured, the dictionary block and the
\* meta-index block, each with its trailer, then one footer as the last bytes;
\* and the footer's two handles are the ranges of those two blocks.
C11_FileLayout ==
  FinishedOK =>
    LET chunks == FileChunks(file)
        n      == Len(chunks)
        kinds  == [i \in DOMAIN chunks |-> chunks[i].kind]
        tail   == ExpectedTail(DictionaryEnabled(cf_options))
        m      == n - Len(tail)
    IN /\ m >= 1
       /\ m % 2 = 1
       /\ kinds[1] = "header"
       /\ \A i \in 2..m : kinds[i] = IF i % 2 = 0 THEN "rec_header" ELSE "rec_body"
       /\ \A i \in 2..m : i % 2 = 0 => chunks[i + 1].data.rec = chunks[i].data.rec
       /\ SubSeq(kinds, m + 1, n) = tail
       /\ DictionaryEnabled(cf_options) =>
            /\ chunks[n].data.uncompression_dict_handle
                 = [offset |-> ChunkOffset(chunks, m + 1), size |-> chunks[m + 1].len]
            /\ chunks[n].data.meta_index_handle
                 = [offset |-> ChunkOffset(chunks, m + 3), size |-> chunks[m + 3].len]

\* C15: builder state machine. After construction the state is Buffered
\* exactly when a dictionary is configured; a call never takes the state from
\* Unbuffered back to Buffered (so it changes at most once); and after a Finish
\* made on a non-failed builder the state is Unbuffered.
C15_StateMachine ==
  /\ [](calls = <<>> =>
          (builder.builder_state_ = "kBuffered" <=> DictionaryEnabled(cf_options)))
  /\ [][ /\ builder.builder_state_ = "kUnbuffered" => builder'.builder_state_ = "kUnbuffered"
         /\ builder'.builder_state_ \in {"kBuffered", "kUnbuffered"}
         /\ (Len(calls') > Len(calls) /\ IsFinish(calls'[Len(calls')]) /\ status = "OK")
              => builder'.builder_state_ = "kUnbuffered" ]_vars

\* C15 witness: an Add made the transition and a Finish on the non-failed
\* builder followed.
C15_Witness ==
  /\ Len(calls) >= 2
  /\ IsBufferedAdd(calls[Len(calls) - 1])
  /\ IsFinish(LastCall) /\ LastCall.st_in = "OK" /\ LastCall.state_in = "kUnbuffered"

\* C16: key-range tracking. Right after an accepted Add, in either state, the
\* smallest key tracked is the key of the first record added and the largest
\* key tracked is the key of the record just added.  Stated for non-empty keys
\* (the empty key is what smallest_key_ holds before any key is tracked).
C16_KeyRangeTracked ==
  (/\ calls # <<>> /\ IsAcceptedAdd(LastCall)
   /\ \A i \in DOMAIN AddedRecords : AddedRecords[i].key > 0)
  => /\ builder.smallest_key_ = AddedRecords[1].key
     /\ builder.largest_key_ = LastCall.rec.key

\* C17: a Buffered Add is in-memory. An Add made in Buffered state that leaves
\* the builder Buffered issues nothing to the file and changes only the sample
\* buffer (the record is appended) and the sampled-byte total (increased by the
\* record's serialized length); and no call that leaves the builder Buffered
\* changes the file.
C17_BufferedAddInMemory ==
  [][ /\ (/\ Len(calls') > Len(calls)
          /\ IsBufferedAdd(calls'[Len(calls')])
          /\ builder'.builder_state_ = "kBuffered")
         => /\ file' = file
            /\ builder' = [builder EXCEPT
                 !.sample_records_ = Append(@, calls'[Len(calls')].rec),
                 !.sample_str_len_ = @ + RecordStrLen(calls'[Len(calls')].rec)]
      /\ builder'.builder_state_ = "kBuffered" => file' = file ]_vars

\* C17 witness: under a non-zero threshold, an Add has just been made in
\* Buffered state and the builder is still Buffered.
C17_Witness ==
  /\ calls # <<>> /\ IsBufferedAdd(LastCall)
  /\ builder.builder_state_ = "kBuffered"
  /\ cf_options.zstd_max_train_bytes > 0

\* C18, as claimed: an Add in Buffered state makes the transition exactly when
\* the threshold is non-zero and the sampled bytes, this record included,
\* exceed it.
C18_TriggerWhenExceeded ==
  [][ (Len(calls') > Len(calls) /\ IsBufferedAdd(calls'[Len(calls')]))
        => (builder'.builder_state_ = "kUnbuffered"
              <=> /\ cf_options.zstd_max_train_bytes > 0
                  /\ builder.sample_str_len_ + RecordStrLen(calls'[Len(calls')].rec)
                       > cf_options.zstd_max_train_bytes) ]_vars

\* C18, amended: an Add in Buffered state makes the transition exactly when the
\* threshold is non-zero and the sampled bytes, this record included, reach or
\* exceed it; otherwise the builder stays Buffered.
C18_TriggerWhenReached ==
  [][ (Len(calls') > Len(calls) /\ IsBufferedAdd(calls'[Len(calls')]))
        => (builder'.builder_state_ = "kUnbuffered"
              <=> /\ cf_options.zstd_max_train_bytes > 0
                  /\ builder.sample_str_len_ + RecordStrLen(calls'[Len(calls')].rec)
                       >= cf_options.zstd_max_train_bytes) ]_vars

\* C18 witness: the Add just made brought the sampled bytes to exactly the
\* threshold, and the builder left Buffered state.
C18_Witness ==
  /\ calls # <<>> /\ IsBufferedAdd(LastCall)
  /\ builder.builder_state_ = "kUnbuffered"
  /\ SumLens([i \in DOMAIN SampledRecords |-> RecordStrLen(SampledRecords[i])])
       = cf_options.zstd_max_train_bytes

\* C19: training-corpus cap. In the dictionary trained from the samples, the
\* length recorded for a sample of serialized length L is min(B - L, L), with
\* B the configured budget (zero included) and B - L taken in size_t, and the
\* recorded lengths add up to the length of the corpus.
C19_TrainingCorpusCap ==
  builder.compression_dict_.trained =>
    LET d == builder.compression_dict_
        B == cf_options.zstd_max_train_bytes
    IN /\ Len(d.lens) = Len(SampledRecords)
       /\ \A i \in DOMAIN d.lens :
            d.lens[i] = Min(SizeT(B - RecordStrLen(SampledRecords[i])),
                            RecordStrLen(SampledRecords[i]))
       /\ SumLens(d.lens) = d.samples

\* C19 witness: a dictionary was trained under a non-zero budget from a sample
\* longer than the budget, where B - L wraps.
C19_Witness ==
  /\ builder.compression_dict_.trained
  /\ cf_options.zstd_max_train_bytes > 0
  /\ \E i \in DOMAIN SampledRecords :
       RecordStrLen(SampledRecords[i]) > cf_options.zstd_max_train_bytes

\* C20: size accounting. While no append has failed and Finish has not been
\* called, the file size is the header length plus the live-data size, the
\* live-data size is the sum of the handle sizes of the records written, these
\* are NumEntries() records, each of its encoded size; buffered samples count
\* in none of them.
C20_SizeAccounting ==
  (Failures(file) = 0 /\ NoFinishYet) =>
    /\ GetFileSize(file) = HeaderLen + builder.live_data_size_
    /\ builder.live_data_size_
         = SumLens([i \in DOMAIN WrittenHandles |-> WrittenHandles[i].size])
    /\ NumEntries = Len(WrittenHandles)
    /\ \A i \in DOMAIN WrittenHandles :
         WrittenHandles[i].size = GetEncodedSize(WrittenRecords[i])

\* C20 witness: with no failure and before Finish, records have been written
\* (the samples replayed at the transition) and a later Add is buffered no
\* more.
C20_Witness ==
  /\ Failures(file) = 0 /\ NoFinishYet
  /\ NumEntries >= 2
  /\ SampledRecords # <<>>

\* C12: recovery exactness. In a finished file with at least one record, after
\* IterateForPrev(h), for an offset h of the file, and k >= 1 calls of Next(),
\* the iterator has yielded, in file order and with none skipped, the records
\* from the one with the greatest start offset not exceeding h (the first
\* record when h precedes it) up to the k-th from there; it is Valid with OK
\* status at the last of them while records remain (so always after the first
\* Next()), and what it reads there is that record at the builder's handle.
C12_RecoveryExactness ==
  (reads.op = "IterateForPrev" /\ reads.nexts >= 1 /\ FileRecords(file) # <<>>) =>
    \A recs \in {FileRecords(file)} :
    LET below == {i \in DOMAIN recs : recs[i].handle.offset <= reads.target}
        first == IF below = {} THEN 1 ELSE CHOOSE i \in below : \A j \in below : j <= i
        at    == first + reads.nexts - 1
        last  == Min(at, Len(recs))
    IN /\ iters[1].status_ = "OK"
       /\ iters[1].valid_ <=> at <= Len(recs)
       /\ reads.yielded = [k \in 1..(last - first + 1) |-> Yield(recs[first + k - 1], 1)]
       /\ iters[1].valid_ => Current(iters[1]) = Yield(recs[at], 1)

\* C12 witness: the file has two records, the target lies strictly inside the
\* byte range of the second, and Next() has been called once.
C12_Witness ==
  /\ reads.op = "IterateForPrev" /\ reads.nexts = 1
  /\ Len(FileRecords(file)) >= 2
  /\ FileRecords(file)[2].handle.offset < reads.target
  /\ reads.target < FileRecords(file)[2].handle.offset + FileRecords(file)[2].handle.size
  /\ iters[1].valid_

\* C13: merge correctness. Over files whose key ranges do not overlap, given
\* to the merge iterator in any order, when the merge iterator is no longer
\* Valid after SeekToFirst and Next() calls it has an OK status and has
\* yielded every added record exactly once, in Add order (which is key order),
\* each with the number of its file and the handle its Add gave the caller.
C13_MergeCorrectness ==
  (reads.op = "MergeSeekToFirst" /\ ~BlobFileMergeIterator_Valid(merge_iter)) =>
    LET adds == {p \in DOMAIN calls : IsAcceptedAdd(calls[p])}
        pos(i) == CHOOSE p \in adds : Cardinality({q \in adds : q <= p}) = i
        file_number(p) == 1 + Cardinality({q \in 1..p : IsFinish(calls[q])})
    IN /\ merge_iter.status_ = "OK"
       /\ Len(reads.yielded) = Cardinality(adds)
       /\ \A i \in DOMAIN reads.yielded :
            /\ reads.yielded[i].key = calls[pos(i)].rec.key
            /\ reads.yielded[i].value = calls[pos(i)].rec.value
            /\ reads.yielded[i].blob_index.file_number = file_number(pos(i))
            /\ reads.yielded[i].blob_index.blob_handle = calls[pos(i)].handle
       /\ \A i \in DOMAIN reads.yielded :
            \A j \in DOMAIN reads.yielded :
              i < j => reads.yielded[i].key <= reads.yielded[j].key

\* C14, as claimed: right after SeekToFirst() the iterator is not Valid, and
\* the first Next() after it puts the iterator at record 0.
C14_SeekToFirstBeforeFirst ==
  (reads.op = "SeekToFirst" /\ FileRecords(file) # <<>>) =>
    /\ reads.nexts = 0 => ~iters[1].valid_
    /\ reads.nexts = 1 =>
         iters[1].valid_ /\ Current(iters[1]) = Yield(FileRecords(file)[1], 1)

\* C14, amended: SeekToFirst() puts the iterator at the first record: right
\* after it the iterator has OK status and is Valid at record 0 when the file
\* holds a record (not Valid when it holds none), and after k calls of Next()
\* it is at record k, or not Valid when the file has no record k.
C14_SeekToFirstAtFirst ==
  reads.op = "SeekToFirst" =>
    \A recs \in {FileRecords(file)} :
    LET at == reads.nexts + 1
    IN /\ iters[1].status_ = "OK"
       /\ iters[1].valid_ <=> at <= Len(recs)
       /\ iters[1].valid_ => Current(iters[1]) = Yield(recs[at], 1)
       /\ reads.yielded = [k \in 1..Min(at, Len(recs)) |-> Yield(recs[k], 1)]

\* C14 witness: SeekToFirst() has just been called on a file that holds
\* records, and no Next() yet.
C14_Witness ==
  /\ reads.op = "SeekToFirst" /\ reads.nexts = 0
  /\ Len(FileRecords(file)) >= 2

====
